---- MODULE Spec2Model ----
(***************************************************************************)
(* UnQTraker (src/app.py): a Flask + Socket.IO service that ingests        *)
(* browser telemetry over POST /api/location, keeps the last 500 records   *)
(* in data/locations.json and a session map in data/sessions.json, serves  *)
(* loopback-only read endpoints and broadcasts every ingest to the         *)
(* connected Socket.IO clients.                                            *)
(*                                                                         *)
(* Four specifications share the state and the translated functions:       *)
(*   Spec           every HTTP handler as one atomic step, starting from   *)
(*                  an absent, unparseable or empty store;                 *)
(*   SpecBroadcast  atomic ingests and the Socket.IO connect / disconnect  *)
(*                  handlers, two clients;                                 *)
(*   SpecCapacity   the atomic HTTP handlers starting from a store that    *)
(*                  earlier ingests filled up to the capacity of 500;      *)
(*   SpecRace       receive_location split at its file accesses, two       *)
(*                  requests in flight at once.                            *)
(***************************************************************************)
EXTENDS Integers, Sequences, FiniteSets, TLC

VARIABLES
    locations_file,  \* data/locations.json : [state, content]
    sessions_file,   \* data/sessions.json  : [state, content]
    clock,           \* number of records built so far (feeds uuid4 and datetime.now)
    resp,            \* the last HTTP response, with the request that caused it
    connected,       \* Socket.IO clients currently connected
    delivered,       \* per client: the events the server sent to it, in order
    emitted,         \* every location_update event passed to socketio.emit, in order
    ingested,        \* history: records written by save_location since Init, in order
    expected,        \* history: per client, [location, session] stored while it was connected
    rq               \* SpecRace: the requests in flight, one per worker

vars == <<locations_file, sessions_file, clock, resp, connected, delivered,
          emitted, ingested, expected, rq>>

(***************************************************************************)
(* Bounds of the model and the one numeric constant of the program.        *)
(***************************************************************************)
MaxLocations == 500

MaxIngests == 3

MaxConnects == 2

MaxRaceIngests == 2

Viewers == {"v1", "v2"}

Workers == {1, 2}

(***************************************************************************)
(* JSON values as Python sees them after request.get_json().               *)
(***************************************************************************)
Null == [t |-> "null"]

Num(n) == [t |-> "num", v |-> n]

Str(s) == [t |-> "str", v |-> s]

Bool(b) == [t |-> "bool", v |-> b]

\* Python truthiness of a JSON value (the `or` of line 99).
Truthy(v) ==
    CASE v.t = "null" -> FALSE
      [] v.t = "str"  -> v.v # ""
      [] v.t = "num"  -> v.v # 0
      [] v.t = "bool" -> v.v

\* dict.get(key) and dict.get(key, default)
dict_get(d, k) == IF k \in DOMAIN d THEN d[k] ELSE Null

dict_get_default(d, k, default) == IF k \in DOMAIN d THEN d[k] ELSE default

\* str(uuid.uuid4()): a value no earlier call returned; n counts the calls.
uuid4(n) == "u" \o ToString(n)

\* datetime.now().isoformat() at tick n
isoformat(n) == Str(ToString(n))

\* format(value, ".6f") of line 173: defined for numbers, raises for None and str.
format_6f_raises(v) == v.t \notin {"num", "bool"}

(***************************************************************************)
(* The two files.                                                          *)
(***************************************************************************)
Absent == [state |-> "absent", content |-> <<>>]

Corrupt == [state |-> "corrupt", content |-> <<>>]

Stored(c) == [state |-> "ok", content |-> c]

\* lines 29-37: the parsed list, [] when the file is absent or json.load raises
load_locations(f) == IF f.state = "ok" THEN f.content ELSE <<>>

\* lines 53-61: the parsed dict, {} when the file is absent or json.load raises
load_sessions(f) == IF f.state = "ok" THEN f.content ELSE <<>>

append_keep_oldest(locations, data) ==
    LET l == Append(locations, data)
    IN  IF Len(l) > MaxLocations THEN SubSeq(l, 1, MaxLocations) ELSE l

\* lines 42-46: locations.append(data); keep locations[-500:]
append_bounded(locations, data) ==
    LET l == Append(locations, data)
    IN  IF Len(l) > MaxLocations
        THEN SubSeq(l, Len(l) - MaxLocations + 1, Len(l))
        ELSE l

write_back_reload(loaded, f, data) == Stored(append_bounded(load_locations(f), data))

\* lines 42-49 once line 41 has run: the list written back is the one loaded
\* then; the present content f of the file is not read again
write_back(loaded, f, data) == Stored(append_bounded(loaded, data))

\* lines 39-51: load, append, truncate, rewrite the whole file
save_location(f, data) == write_back(load_locations(f), f, data)

\* line 66: sessions[session_id] = data
session_put(sessions, session_id, data) ==
    [k \in DOMAIN sessions \cup {session_id} |->
        IF k = session_id THEN data ELSE sessions[k]]

\* lines 63-69: load, sessions[session_id] = data, rewrite the whole file
save_session(f, session_id, data) ==
    Stored(session_put(load_sessions(f), session_id, data))

is_localhost_any_127(remote_addr) ==
    remote_addr \in {"127.0.0.1", "localhost", "::1", "127.0.0.2"}

\* lines 71-75
is_localhost(remote_addr) == remote_addr \in {"127.0.0.1", "localhost", "::1"}

\* lines 301-307: the body every abort(403) answers with
forbidden ==
    [status |-> 403,
     body   |-> [error   |-> "Access Denied",
                 message |-> "This resource is only accessible from localhost"],
     reads  |-> {}]

(***************************************************************************)
(* receive_location, lines 92-197, piece by piece.                         *)
(***************************************************************************)
\* line 99: data.get('session_id') or str(uuid.uuid4()); n is the record's tick
resolve_session_id(data, n) ==
    IF Truthy(dict_get(data, "session_id"))
    THEN dict_get(data, "session_id").v
    ELSE uuid4(2 * n - 1)

\* lines 102-144 (device_info is kept to ip_address and browser; the other
\* client fields are copied by the same data.get as accuracy and browser)
build_location(data, remote_addr, session_id, n) ==
    [id          |-> uuid4(2 * n),
     timestamp   |-> isoformat(n),
     latitude    |-> dict_get(data, "latitude"),
     longitude   |-> dict_get(data, "longitude"),
     accuracy    |-> dict_get(data, "accuracy"),
     device_info |-> [ip_address |-> remote_addr,
                      browser    |-> dict_get(data, "browser")],
     session_id  |-> session_id,
     is_live     |-> dict_get_default(data, "is_live", Bool(FALSE))]

count_all(locations, session_id) == Len(locations)

\* line 154: len([loc for loc in load_locations() if loc.get('session_id') == session_id])
count_session(locations, session_id) ==
    Len(SelectSeq(locations, LAMBDA loc : loc.session_id = session_id))

\* lines 150-157; locations is what load_locations() returns at line 154
build_session_info(data, location_data, session_id, locations, now) ==
    [session_id       |-> session_id,
     first_seen       |-> dict_get_default(data, "first_seen", isoformat(now)),
     last_seen        |-> isoformat(now),
     location_count   |-> count_session(locations, session_id),
     device_info      |-> location_data.device_info,
     is_live_tracking |-> dict_get_default(data, "is_live", Bool(FALSE))]

\* lines 161-164: the event and its payload
location_update(location_data, session_info) ==
    [event |-> "location_update",
     data  |-> [location |-> location_data, session |-> session_info]]

emit_to_all(conn, deliv, ev) == [v \in Viewers |-> Append(deliv[v], ev)]

\* socketio.emit(..., namespace='/') with no `to`: one copy to every client
\* connected at the time of the call, nothing kept for the others
emit(conn, deliv, ev) ==
    [v \in Viewers |-> IF v \in conn THEN Append(deliv[v], ev) ELSE deliv[v]]

\* lines 166-183: the only statement of the logging block that can raise is
\* the ".6f" formatting of latitude and longitude on line 173
log_raises(location_data) ==
    format_6f_raises(location_data.latitude)
        \/ format_6f_raises(location_data.longitude)

\* lines 185-190
success_response(session_id, saved_data) ==
    [status |-> 200,
     body   |-> [status     |-> "success",
                 message    |-> "Location tracked successfully",
                 session_id |-> session_id,
                 data       |-> saved_data]]

\* lines 192-197
error_response(e) ==
    [status |-> 400, body |-> [status |-> "error", message |-> e]]

\* line 96-99 on a body that is no JSON object: get_json() raises BadRequest on
\* unparseable text, data.get raises AttributeError on a list
parse_error(body) ==
    IF body.kind = "invalid" THEN "BadRequest" ELSE "AttributeError"

NoRequest == [op |-> "none", remote_addr |-> "", status |-> 0]

Idle == [pc |-> "idle"]

\* POST /api/location as one step (lines 92-197)
ReceiveLocation(req) ==
    /\ Len(ingested) < MaxIngests
    /\ IF req.body.kind # "object"
       THEN /\ resp' = [op |-> "receive_location", remote_addr |-> req.remote_addr,
                        request |-> req] @@ error_response(parse_error(req.body))
            /\ UNCHANGED <<locations_file, sessions_file, clock, connected,
                           delivered, emitted, ingested, expected, rq>>
       ELSE LET data == req.body.data
                n == clock + 1
                session_id == resolve_session_id(data, n)
                location_data == build_location(data, req.remote_addr, session_id, n)
                lf == save_location(locations_file, location_data)
                session_info == build_session_info(data, location_data, session_id,
                                                   load_locations(lf), n)
                sf == save_session(sessions_file, session_id, session_info)
                ev == location_update(location_data, session_info)
            IN  /\ clock' = n
                /\ locations_file' = lf
                /\ sessions_file' = sf
                /\ delivered' = emit(connected, delivered, ev)
                /\ emitted' = Append(emitted, ev)
                /\ ingested' = Append(ingested, location_data)
                /\ expected' = [v \in Viewers |->
                       IF v \in connected
                       THEN Append(expected[v],
                                   [location |-> lf.content[Len(lf.content)],
                                    session  |-> sf.content[session_id]])
                       ELSE expected[v]]
                /\ resp' = [op |-> "receive_location", remote_addr |-> req.remote_addr,
                            request |-> req]
                           @@ (IF log_raises(location_data)
                               THEN error_response("TypeError")
                               ELSE success_response(session_id, location_data))
                /\ UNCHANGED <<connected, rq>>

(***************************************************************************)
(* The read endpoints, as the response each builds from the two files.     *)
(***************************************************************************)
\* lines 82-90
admin(remote_addr) ==
    IF ~is_localhost(remote_addr) THEN forbidden
    ELSE [status |-> 200,
          body   |-> [template  |-> "admin.html",
                      locations |-> load_locations(locations_file),
                      sessions  |-> load_sessions(sessions_file)],
          reads  |-> {"locations", "sessions"}]

\* lines 199-215; session_id is request.args.get('session_id')
get_locations(remote_addr, session_id) ==
    IF ~is_localhost(remote_addr) THEN forbidden
    ELSE LET all == load_locations(locations_file)
             locations ==
                IF Truthy(session_id)
                THEN SelectSeq(all, LAMBDA loc : loc.session_id = session_id.v)
                ELSE all
         IN  [status |-> 200,
              body   |-> [status    |-> "success",
                          count     |-> Len(locations),
                          locations |-> locations],
              reads  |-> {"locations"}]

\* lines 217-228
get_sessions(remote_addr) ==
    IF ~is_localhost(remote_addr) THEN forbidden
    ELSE LET sessions == load_sessions(sessions_file)
         IN  [status |-> 200,
              body   |-> [status   |-> "success",
                          count    |-> Cardinality(DOMAIN sessions),
                          sessions |-> sessions],
              reads  |-> {"sessions"}]

get_latest_first(remote_addr) ==
    IF ~is_localhost(remote_addr) THEN forbidden
    ELSE LET locations == load_locations(locations_file)
         IN  IF locations # <<>>
             THEN [status |-> 200,
                   body   |-> [status |-> "success", location |-> locations[1]],
                   reads  |-> {"locations"}]
             ELSE [status |-> 404,
                   body   |-> [status |-> "error", message |-> "No locations found"],
                   reads  |-> {"locations"}]

\* lines 230-245
get_latest(remote_addr) ==
    IF ~is_localhost(remote_addr) THEN forbidden
    ELSE LET locations == load_locations(locations_file)
         IN  IF locations # <<>>
             THEN [status |-> 200,
                   body   |-> [status   |-> "success",
                               location |-> locations[Len(locations)]],
                   reads  |-> {"locations"}]
             ELSE [status |-> 404,
                   body   |-> [status |-> "error", message |-> "No locations found"],
                   reads  |-> {"locations"}]

get_stats_distinct(remote_addr) ==
    IF ~is_localhost(remote_addr) THEN forbidden
    ELSE LET locations == load_locations(locations_file)
         IN  [status |-> 200,
              body   |-> [status           |-> "success",
                          total_locations  |-> Len(locations),
                          total_sessions   |->
                              Cardinality({locations[i].session_id :
                                              i \in 1..Len(locations)}),
                          unique_ips       |-> 0,
                          active_sessions  |-> 0],
              reads  |-> {"locations", "sessions"}]

\* lines 247-275
get_stats(remote_addr) ==
    IF ~is_localhost(remote_addr) THEN forbidden
    ELSE LET locations == load_locations(locations_file)
             sessions == load_sessions(sessions_file)
         IN  IF locations = <<>>
             THEN [status |-> 200,
                   body   |-> [status           |-> "success",
                               total_locations  |-> 0,
                               total_sessions   |-> 0,
                               unique_ips       |-> 0,
                               active_sessions  |-> 0],
                   reads  |-> {"locations", "sessions"}]
             ELSE [status |-> 200,
                   body   |-> [status           |-> "success",
                               total_locations  |-> Len(locations),
                               total_sessions   |-> Cardinality(DOMAIN sessions),
                               unique_ips       |->
                                   Cardinality({locations[i].device_info.ip_address :
                                       i \in {j \in 1..Len(locations) :
                                           locations[j].device_info.ip_address # ""}}),
                               active_sessions  |->
                                   Cardinality({k \in DOMAIN sessions :
                                       Truthy(sessions[k].is_live_tracking)}),
                               latest_timestamp |->
                                   locations[Len(locations)].timestamp],
                   reads  |-> {"locations", "sessions"}]

\* lines 277-288: no access check
health(remote_addr) ==
    [status |-> 200,
     body   |-> [status          |-> "healthy",
                 total_locations |-> Len(load_locations(locations_file)),
                 active_sessions |-> Cardinality(DOMAIN load_sessions(sessions_file))],
     reads  |-> {"locations", "sessions"}]

\* the response as resp records it, with the request that caused it
Reply(op, remote_addr, r) == [op |-> op, remote_addr |-> remote_addr] @@ r

\* what no read endpoint touches
NotRead == <<locations_file, sessions_file, clock, connected, delivered,
             emitted, ingested, expected, rq>>

Admin(remote_addr) ==
    /\ resp' = Reply("admin", remote_addr, admin(remote_addr))
    /\ UNCHANGED NotRead

GetLocations(remote_addr, session_id) ==
    /\ resp' = Reply("get_locations", remote_addr,
                     get_locations(remote_addr, session_id))
    /\ UNCHANGED NotRead

GetSessions(remote_addr) ==
    /\ resp' = Reply("get_sessions", remote_addr, get_sessions(remote_addr))
    /\ UNCHANGED NotRead

GetLatest(remote_addr) ==
    /\ resp' = Reply("get_latest", remote_addr, get_latest(remote_addr))
    /\ UNCHANGED NotRead

GetStats(remote_addr) ==
    /\ resp' = Reply("get_stats", remote_addr, get_stats(remote_addr))
    /\ UNCHANGED NotRead

Health(remote_addr) ==
    /\ resp' = Reply("health", remote_addr, health(remote_addr))
    /\ UNCHANGED NotRead

(***************************************************************************)
(* Socket.IO connect / disconnect, lines 290-299.                          *)
(***************************************************************************)
connection_status ==
    [event |-> "connection_status",
     data  |-> [status |-> "connected", message |-> "Real-time tracking active"]]

Connects(v) ==
    Len(SelectSeq(delivered[v], LAMBDA e : e.event = "connection_status"))

\* lines 290-294: the transport registers the client, the handler greets it
HandleConnect(v) ==
    /\ v \notin connected
    /\ Connects(v) < MaxConnects
    /\ connected' = connected \cup {v}
    /\ delivered' = [delivered EXCEPT ![v] = Append(@, connection_status)]
    /\ UNCHANGED <<locations_file, sessions_file, clock, resp, emitted,
                   ingested, expected, rq>>

\* lines 296-299: the transport drops the client, the handler only logs
HandleDisconnect(v) ==
    /\ v \in connected
    /\ connected' = connected \ {v}
    /\ UNCHANGED <<locations_file, sessions_file, clock, resp, delivered,
                   emitted, ingested, expected, rq>>

(***************************************************************************)
(* Spec: the HTTP surface, every handler atomic, from a store that is      *)
(* absent (first start), unparseable, or empty.                            *)
(***************************************************************************)
Addrs == {"127.0.0.1", "localhost", "::1", "127.0.0.2", "203.0.113.7"}

Object(remote_addr, data) ==
    [remote_addr |-> remote_addr, body |-> [kind |-> "object", data |-> data]]

EmptyDict == [k \in {} |-> Null]

IngestRequests ==
    { Object("203.0.113.7", EmptyDict),
      Object("203.0.113.7", [latitude |-> Num(37), longitude |-> Num(-122),
                             accuracy |-> Num(5)]),
      Object("127.0.0.1", [latitude |-> Num(37), longitude |-> Num(-122),
                           session_id |-> Str("s1"), is_live |-> Bool(TRUE)]),
      Object("198.51.100.9", [longitude |-> Num(10), session_id |-> Str("s2"),
                              browser |-> Str("Firefox")]),
      Object("198.51.100.9", [latitude |-> Num(1), longitude |-> Null,
                              session_id |-> Str("")]),
      [remote_addr |-> "203.0.113.7", body |-> [kind |-> "invalid"]],
      [remote_addr |-> "203.0.113.7", body |-> [kind |-> "array"]] }

SessionFilters == {Null, Str("s1")}

NoViewerState ==
    /\ connected = {}
    /\ delivered = [v \in Viewers |-> <<>>]
    /\ expected = [v \in Viewers |-> <<>>]

Fresh ==
    /\ clock = 0
    /\ resp = NoRequest
    /\ emitted = <<>>
    /\ ingested = <<>>
    /\ rq = [w \in Workers |-> Idle]
    /\ NoViewerState

Init ==
    /\ locations_file \in {Absent, Corrupt, Stored(<<>>)}
    /\ sessions_file \in {Absent, Corrupt, Stored(<<>>)}
    /\ Fresh

Next ==
    \/ \E req \in IngestRequests : ReceiveLocation(req)
    \/ \E a \in Addrs : Admin(a)
    \/ \E a \in Addrs, s \in SessionFilters : GetLocations(a, s)
    \/ \E a \in Addrs : GetSessions(a)
    \/ \E a \in Addrs : GetLatest(a)
    \/ \E a \in Addrs : GetStats(a)
    \/ \E a \in Addrs : Health(a)

Spec == Init /\ [][Next]_vars

(***************************************************************************)
(* SpecBroadcast: ingests and Socket.IO clients coming and going.          *)
(***************************************************************************)
BroadcastRequests ==
    { Object("203.0.113.7", [latitude |-> Num(37), longitude |-> Num(-122)]),
      Object("198.51.100.9", [longitude |-> Num(10), session_id |-> Str("s2")]),
      [remote_addr |-> "203.0.113.7", body |-> [kind |-> "invalid"]] }

InitBroadcast ==
    /\ locations_file = Absent
    /\ sessions_file = Absent
    /\ Fresh

NextBroadcast ==
    \/ \E req \in BroadcastRequests : ReceiveLocation(req)
    \/ \E v \in Viewers : HandleConnect(v)
    \/ \E v \in Viewers : HandleDisconnect(v)

SpecBroadcast == InitBroadcast /\ [][NextBroadcast]_vars

(***************************************************************************)
(* SpecCapacity: the store as n earlier ingests left it, n = 0, 499, 500.  *)
(***************************************************************************)
\* the i-th earlier ingest: the first one of session s0, the others of s1
PreRequest(i) ==
    Object("198.51.100.9",
           [latitude |-> Num(37), longitude |-> Num(-122),
            session_id |-> Str(IF i = 1 THEN "s0" ELSE "s1")])

PreRecord(i) ==
    LET data == PreRequest(i).body.data
    IN  build_location(data, PreRequest(i).remote_addr, resolve_session_id(data, i), i)

Preload(n) == [i \in 1..n |-> PreRecord(i)]

PreSession(n, i) ==
    LET data == PreRequest(i).body.data
    IN  build_session_info(data, PreRecord(i), resolve_session_id(data, i),
                           SubSeq(Preload(n), 1, i), i)

PreloadSessions(n) ==
    [k \in {PreRecord(i).session_id : i \in 1..n} |->
        IF k = "s0" THEN PreSession(n, 1) ELSE PreSession(n, n)]

PreloadSizes == {MaxLocations - 1, MaxLocations}

CapacityRequests ==
    { Object("203.0.113.7", EmptyDict),
      Object("127.0.0.1", [latitude |-> Num(37), longitude |-> Num(-122),
                           session_id |-> Str("s1"), is_live |-> Bool(TRUE)]),
      Object("198.51.100.9", [longitude |-> Num(10), session_id |-> Str("s2")]),
      [remote_addr |-> "203.0.113.7", body |-> [kind |-> "array"]] }

CapacityAddrs == {"127.0.0.1", "203.0.113.7"}

InitCapacity ==
    /\ \/ /\ locations_file = Absent
          /\ sessions_file = Absent
          /\ clock = 0
       \/ \E n \in PreloadSizes :
            /\ locations_file = Stored(Preload(n))
            /\ sessions_file = Stored(PreloadSessions(n))
            /\ clock = n
    /\ resp = NoRequest
    /\ emitted = <<>>
    /\ ingested = <<>>
    /\ rq = [w \in Workers |-> Idle]
    /\ NoViewerState

NextCapacity ==
    \/ \E req \in CapacityRequests : ReceiveLocation(req)
    \/ \E a \in CapacityAddrs : GetLocations(a, Str("s0"))
    \/ \E a \in CapacityAddrs : GetSessions(a)
    \/ \E a \in CapacityAddrs : GetLatest(a)
    \/ \E a \in CapacityAddrs : GetStats(a)

SpecCapacity == InitCapacity /\ [][NextCapacity]_vars

(***************************************************************************)
(* SpecRace: two workers run receive_location at once.  Every read and     *)
(* every rewrite of a file is one step (the whole-file read and the        *)
(* whole-file write are each taken as atomic); nothing in lines 39-69      *)
(* holds a lock between them.                                              *)
(***************************************************************************)
Busy(w) == rq[w].pc \notin {"idle", "done"}

RaceUnchanged == UNCHANGED <<resp, connected, expected>>

\* lines 95-144: parse the body, resolve the session, build the record
Begin(w, req) ==
    /\ ~Busy(w)
    /\ clock < MaxRaceIngests
    /\ IF req.body.kind # "object"
       THEN /\ rq' = [rq EXCEPT ![w] =
                        [pc |-> "done", req |-> req, wrote |-> 0]
                        @@ error_response(parse_error(req.body))]
            /\ UNCHANGED clock
       ELSE LET data == req.body.data
                n == clock + 1
                session_id == resolve_session_id(data, n)
            IN  /\ clock' = n
                /\ rq' = [rq EXCEPT ![w] =
                            [pc            |-> "built",
                             req           |-> req,
                             session_id    |-> session_id,
                             location_data |-> build_location(data, req.remote_addr,
                                                              session_id, n)]]
    /\ UNCHANGED <<locations_file, sessions_file, delivered, emitted, ingested>>
    /\ RaceUnchanged

\* line 41
LoadLocations(w) ==
    /\ rq[w].pc = "built"
    /\ rq' = [rq EXCEPT ![w] =
                [pc |-> "loaded", locations |-> load_locations(locations_file)] @@ @]
    /\ UNCHANGED <<locations_file, sessions_file, clock, delivered, emitted, ingested>>
    /\ RaceUnchanged

\* lines 42-49
WriteLocations(w) ==
    /\ rq[w].pc = "loaded"
    /\ locations_file' = write_back(rq[w].locations, locations_file,
                                    rq[w].location_data)
    /\ ingested' = Append(ingested, rq[w].location_data)
    /\ rq' = [rq EXCEPT ![w] = [pc |-> "saved", wrote |-> Len(ingested) + 1] @@ @]
    /\ UNCHANGED <<sessions_file, clock, delivered, emitted>>
    /\ RaceUnchanged

\* lines 150-157, with the load_locations() of line 154
CountSession(w) ==
    /\ rq[w].pc = "saved"
    /\ rq' = [rq EXCEPT ![w] =
                [pc           |-> "counted",
                 session_info |->
                     build_session_info(rq[w].req.body.data, rq[w].location_data,
                                        rq[w].session_id,
                                        load_locations(locations_file), clock)] @@ @]
    /\ UNCHANGED <<locations_file, sessions_file, clock, delivered, emitted, ingested>>
    /\ RaceUnchanged

\* line 65
LoadSessions(w) ==
    /\ rq[w].pc = "counted"
    /\ rq' = [rq EXCEPT ![w] =
                [pc |-> "sessions_loaded", sessions |-> load_sessions(sessions_file)] @@ @]
    /\ UNCHANGED <<locations_file, sessions_file, clock, delivered, emitted, ingested>>
    /\ RaceUnchanged

\* lines 66-69
WriteSessions(w) ==
    /\ rq[w].pc = "sessions_loaded"
    /\ sessions_file' = Stored(session_put(rq[w].sessions, rq[w].session_id,
                                           rq[w].session_info))
    /\ rq' = [rq EXCEPT ![w] = [pc |-> "session_saved"] @@ @]
    /\ UNCHANGED <<locations_file, clock, delivered, emitted, ingested>>
    /\ RaceUnchanged

\* lines 161-164
Emit(w) ==
    /\ rq[w].pc = "session_saved"
    /\ LET ev == location_update(rq[w].location_data, rq[w].session_info)
       IN  /\ delivered' = emit(connected, delivered, ev)
           /\ emitted' = Append(emitted, ev)
    /\ rq' = [rq EXCEPT ![w] = [pc |-> "emitted"] @@ @]
    /\ UNCHANGED <<locations_file, sessions_file, clock, ingested>>
    /\ RaceUnchanged

\* lines 166-197: log, then answer 200, or 400 when the logging raised
Respond(w) ==
    /\ rq[w].pc = "emitted"
    /\ rq' = [rq EXCEPT ![w] =
                [pc |-> "done"]
                @@ (IF log_raises(rq[w].location_data)
                    THEN error_response("TypeError")
                    ELSE success_response(rq[w].session_id, rq[w].location_data))
                @@ @]
    /\ UNCHANGED <<locations_file, sessions_file, clock, delivered, emitted, ingested>>
    /\ RaceUnchanged

RaceRequests ==
    { Object("203.0.113.7", [latitude |-> Num(37), longitude |-> Num(-122)]),
      Object("127.0.0.1", [latitude |-> Num(1), longitude |-> Num(2),
                           session_id |-> Str("s1")]),
      Object("198.51.100.9", [longitude |-> Num(10), session_id |-> Str("s1")]),
      [remote_addr |-> "203.0.113.7", body |-> [kind |-> "invalid"]] }

InitRace ==
    /\ locations_file \in {Absent, Stored(<<>>)}
    /\ sessions_file = locations_file
    /\ Fresh

NextRace ==
    \/ \E w \in Workers, req \in RaceRequests : Begin(w, req)
    \/ \E w \in Workers : LoadLocations(w)
    \/ \E w \in Workers : WriteLocations(w)
    \/ \E w \in Workers : CountSession(w)
    \/ \E w \in Workers : LoadSessions(w)
    \/ \E w \in Workers : WriteSessions(w)
    \/ \E w \in Workers : Emit(w)
    \/ \E w \in Workers : Respond(w)

SpecRace == InitRace /\ [][NextRace]_vars

(***************************************************************************)
(* Properties.                                                             *)
(***************************************************************************)
StoredLocations ==
    IF locations_file.state = "ok" THEN locations_file.content ELSE <<>>

StoredSessions ==
    IF sessions_file.state = "ok" THEN sessions_file.content ELSE <<>>

\* every record save_location ever wrote, oldest first
History == Preload(clock - Len(ingested)) \o ingested

SessionIdsIn(locations) == {locations[i].session_id : i \in 1..Len(locations)}

CountOf(locations, session_id) ==
    Cardinality({i \in 1..Len(locations) : locations[i].session_id = session_id})

Loopback == {"127.0.0.1", "localhost", "::1"}

Restricted == {"admin", "get_locations", "get_sessions", "get_latest", "get_stats"}

IngestAnswered == resp.op = "receive_location" /\ resp.request.body.kind = "object"

\* C1 (SpecCapacity): after any sequence of atomic ingests the stored list
\* has at most 500 records and is the last min(n, 500) records written, in
\* the order they were written.
C1_BoundedFifo ==
    LET n == clock
        k == IF n < MaxLocations THEN n ELSE MaxLocations
    IN  /\ Len(StoredLocations) <= MaxLocations
        /\ StoredLocations = SubSeq(History, n - k + 1, n)

\* more than 500 written: the oldest is gone, the newest is the last element
C1_Witness ==
    /\ clock > MaxLocations
    /\ Len(StoredLocations) = MaxLocations
    /\ ingested # <<>>
    /\ StoredLocations[MaxLocations] = ingested[Len(ingested)]
    /\ \A i \in 1..MaxLocations : StoredLocations[i] # PreRecord(1)

\* C2 (Spec): a restricted endpoint answers a caller whose address is not
\* 127.0.0.1, localhost or ::1 with 403 and the fixed body, having read
\* neither file.
C2_NonLoopbackForbidden ==
    (resp.op \in Restricted /\ resp.remote_addr \notin Loopback) =>
        /\ resp.status = 403
        /\ resp.body = [error   |-> "Access Denied",
                        message |-> "This resource is only accessible from localhost"]
        /\ resp.reads = {}

\* a non-loopback caller asks for the list while the store holds records
C2_Witness ==
    /\ resp.op = "get_locations"
    /\ resp.remote_addr = "127.0.0.2"
    /\ resp.status = 403
    /\ StoredLocations # <<>>
    /\ DOMAIN StoredSessions # {}

\* C3 (Spec): a POST /api/location that answers 400 leaves both files as
\* they were and publishes no location_update.
C3_NoPartialSuccess ==
    [][(resp'.op = "receive_location" /\ resp'.status = 400 /\ resp' # resp) =>
          /\ locations_file' = locations_file
          /\ sessions_file' = sessions_file
          /\ emitted' = emitted]_vars

\* C4 (Spec): a POST /api/location whose body is a JSON object answers 200
\* whichever fields it carries, and the stored record holds the supplied
\* values, null for the absent ones.
C4_AllFieldsOptional ==
    IngestAnswered =>
        LET data == resp.request.body.data
            rec == StoredLocations[Len(StoredLocations)]
        IN  /\ resp.status = 200
            /\ \A k \in {"latitude", "longitude", "accuracy"} :
                  rec[k] = (IF k \in DOMAIN data THEN data[k] ELSE Null)
            /\ resp.body.data = rec

\* C5 (SpecCapacity): for a loopback caller GET /api/latest answers 404
\* exactly when the store is empty, and otherwise the last stored record,
\* which is the record of the most recent ingest.
C5_Latest ==
    (resp.op = "get_latest" /\ resp.remote_addr \in Loopback) =>
        /\ (resp.status = 404) <=> (StoredLocations = <<>>)
        /\ StoredLocations # <<>> =>
              /\ resp.status = 200
              /\ resp.body.location = StoredLocations[Len(StoredLocations)]
              /\ ingested # <<>> => resp.body.location = ingested[Len(ingested)]

\* latest after several ingests into a full store
C5_Witness ==
    /\ resp.op = "get_latest"
    /\ resp.status = 200
    /\ Len(ingested) >= 2
    /\ clock > MaxLocations
    /\ resp.body.location = ingested[Len(ingested)]

LocationUpdates(events) ==
    LET sel == SelectSeq(events, LAMBDA e : e.event = "location_update")
    IN  [i \in 1..Len(sel) |-> sel[i].data]

\* C6 (SpecBroadcast): the location_update events sent to a client are, in
\* order, the record and session summary of every ingest stored while it was
\* connected, and nothing else; each ingest is emitted once.
C6_DeliveredWhileConnected ==
    /\ \A v \in Viewers : LocationUpdates(delivered[v]) = expected[v]
    /\ Len(emitted) = Len(ingested)
    /\ \A i \in 1..Len(emitted) : emitted[i].data.location = ingested[i]

\* a client got two ingests, missed the third while away, and has reconnected
C6_Witness ==
    \E v \in Viewers :
        /\ v \in connected
        /\ Connects(v) = 2
        /\ Len(ingested) = 3
        /\ Len(expected[v]) = 2
        /\ LocationUpdates(delivered[v]) =
              <<[location |-> ingested[1], session |-> emitted[1].data.session],
                [location |-> ingested[2], session |-> emitted[2].data.session]>>

\* C7 as stated (SpecCapacity): total_sessions of GET /api/stats is the
\* number of distinct session_id values among the stored records.
C7_SessionsAmongStored ==
    (resp.op = "get_stats" /\ resp.status = 200) =>
        resp.body.total_sessions = Cardinality(SessionIdsIn(StoredLocations))

\* C7 amended (SpecCapacity): total_sessions is the number of entries of the
\* session map (0 while the store is empty), which is never less than the
\* number of distinct session_id values among the stored records.
C7_SessionsInMap ==
    (resp.op = "get_stats" /\ resp.status = 200) =>
        /\ resp.body.total_sessions =
              (IF StoredLocations = <<>> THEN 0 ELSE Cardinality(DOMAIN StoredSessions))
        /\ resp.body.total_sessions >= Cardinality(SessionIdsIn(StoredLocations))

\* stats after the only record of session s0 was evicted
C7_Witness ==
    /\ resp.op = "get_stats"
    /\ resp.status = 200
    /\ "s0" \in DOMAIN StoredSessions
    /\ "s0" \notin SessionIdsIn(StoredLocations)
    /\ resp.body.total_sessions > Cardinality(SessionIdsIn(StoredLocations))

\* C8 (Spec): with the records file absent or unparseable every read
\* endpoint answers as for an empty store, and the next ingest answers 200
\* and leaves exactly its one record in the store.
C8_SilentEmptyStore ==
    /\ [](locations_file.state # "ok" /\ resp.remote_addr \in Loopback =>
            /\ resp.op = "get_locations" => resp.status = 200 /\ resp.body.count = 0
            /\ resp.op = "get_latest" => resp.status = 404
            /\ resp.op = "get_stats" => resp.status = 200 /\ resp.body.total_locations = 0
            /\ resp.op = "health" => resp.status = 200 /\ resp.body.total_locations = 0)
    /\ [][(locations_file.state # "ok" /\ resp' # resp /\ resp'.op = "receive_location"
              /\ resp'.request.body.kind = "object") =>
            /\ resp'.status = 200
            /\ locations_file'.state = "ok"
            /\ locations_file'.content = <<resp'.body.data>>]_vars

BothAnswered == \A w \in Workers : rq[w].pc = "done" /\ rq[w].status = 200

\* both requests read the list before either wrote it back
Overlapped == BothAnswered /\ \A w, x \in Workers : rq[w].locations = rq[x].locations

\* C9 (SpecRace): when two ingests both load the list before either writes
\* it back and both answer 200, the store holds the list they loaded plus
\* the record of the one that wrote last; the other record is lost.
C9_LostUpdate ==
    Overlapped =>
        \E last, first \in Workers :
            /\ rq[first].wrote < rq[last].wrote
            /\ StoredLocations = Append(rq[last].locations, rq[last].location_data)
            /\ \A i \in 1..Len(StoredLocations) :
                  StoredLocations[i] # rq[first].location_data

\* two successes, one record
C9_Witness ==
    /\ Overlapped
    /\ Len(ingested) = 2
    /\ Len(StoredLocations) = 1
    /\ StoredLocations[1] = ingested[2]

\* C10 (SpecCapacity): when an atomic ingest for session s has been
\* answered, the session map has an entry s whose location_count is the
\* number of stored records of session s, between 1 and 500.
C10_SessionCount ==
    IngestAnswered =>
        LET s == ingested[Len(ingested)].session_id
            n == CountOf(StoredLocations, s)
        IN  /\ s \in DOMAIN StoredSessions
            /\ StoredSessions[s].session_id = s
            /\ StoredSessions[s].location_count = n
            /\ n >= 1
            /\ n <= MaxLocations

\* an ingest that leaves all 500 stored records in its session
C10_Witness ==
    /\ IngestAnswered
    /\ CountOf(StoredLocations, ingested[Len(ingested)].session_id) = MaxLocations
    /\ StoredSessions[ingested[Len(ingested)].session_id].location_count = MaxLocations

====
